---- MODULE Spec2Model ----
(***************************************************************************)
(* Family tree engine of zz-sim-data-tool (src/src/model.rs) driven by the *)
(* command loop of src/src/main.rs.                                        *)
(*                                                                         *)
(* A FamilyMember is a record                                              *)
(*   [name, birth_year, hoser_power_add, member_type, position, children,  *)
(*    is_dead]                                                             *)
(* whose children field is a sequence of FamilyMember records.             *)
(* Option<T> values are sequences of length 0 (None) or 1 (Some).          *)
(* A Generation is its u8 discriminant 0..10 (10 is the last, unknown variant).*)
(***************************************************************************)
EXTENDS Integers, Sequences, FiniteSets, TLC

VARIABLES tree, prev, cmd, out, pc, steps, lines, title, loaded, current_year, archives, found_path

vars == <<tree, prev, cmd, out, pc, steps, lines, title, loaded, current_year, archives, found_path>>

(***************************************************************************)
(* Bounds of the model.                                                    *)
(***************************************************************************)
\* number of commands executed in one run of the command loop
MaxSteps == 2

\* names typed by the user
Names == {"Head", "a", "b", "c"}

\* names carried by the members of a batch payload
NewNames == {"a", "b"}

\* years typed by the user / birth years carried by payload members
Years == {1, 2}

(***************************************************************************)
(* Types (model.rs 31-75).                                                 *)
(***************************************************************************)
Generation == 0 .. 10

Gender == {"Male", "Female"}

Lineage == {"Direct", "Foreign"}

MemberType(generation, gender, lineage) ==
    [generation |-> generation, gender |-> gender, lineage |-> lineage]

FamilyMember(name, birth_year, member_type, children, is_dead) ==
    [name |-> name, birth_year |-> birth_year, hoser_power_add |-> 0,
     member_type |-> member_type, position |-> <<>>,
     children |-> children, is_dead |-> is_dead]

None == <<>>

Some(x) == <<x>>

\* What a call reports to its caller or prints: the kind of the result or
\* message, the name it mentions and, for an ineligible successor, the
\* generation it mentions.
Report(kind, name, generation) == [kind |-> kind, name |-> name, generation |-> generation]

\* nothing returned and nothing printed
Silent == Report("", "", 0)

Ok == Report("Ok", "", 0)

(***************************************************************************)
(* Generation arithmetic (model.rs 100-104, 645-670).                      *)
(***************************************************************************)
saturating_sub(a, b) == IF a >= b THEN a - b ELSE 0

from_u8(n) == IF n \in 0 .. 9 THEN n ELSE 10

(***************************************************************************)
(* Titles.  A title is a string, modelled as the sequence of its           *)
(* characters; each character is written by its reading: jia zhu (head),   *)
(* er (child), nv (female), sun (grandchild), wai (foreign), zeng, xuan,   *)
(* lai, kun, reng, yun, ear (the generations 3..9), wei zhi (unknown).     *)
(***************************************************************************)
contains(s, pattern) ==
    \E i \in 1 .. Len(s) + 1 - Len(pattern) : SubSeq(s, i, i + Len(pattern) - 1) = pattern

\* the rows of Display's table for the generations 2..9: the generation's word
\* between the foreign and the female mark
Word(generation) ==
    CASE generation = 2 -> <<"sun">>
      [] generation = 3 -> <<"zeng", "sun">>
      [] generation = 4 -> <<"xuan", "sun">>
      [] generation = 5 -> <<"lai", "sun">>
      [] generation = 6 -> <<"kun", "sun">>
      [] generation = 7 -> <<"reng", "sun">>
      [] generation = 8 -> <<"yun", "sun">>
      [] generation = 9 -> <<"ear", "sun">>

fmt(self) ==
    CASE self.generation = 0 -> <<"jia", "zhu">>
      [] self.generation = 1 /\ self.gender = "Male" -> <<"er">>
      [] self.generation = 1 /\ self.gender = "Female" -> <<"nv", "er">>
      [] self.generation \in 2 .. 9 ->
            (IF self.lineage = "Foreign" THEN <<"wai">> ELSE <<>>)
            \o Word(self.generation)
            \o (IF self.gender = "Female" THEN <<"nv">> ELSE <<>>)
      [] self.generation = 10 -> <<"wei", "zhi">>

\* FromStr that tests the grandchild's character before the longer words
from_str_tests_grandchild_first(s) ==
    MemberType(
        IF s = <<"jia", "zhu">> THEN 0
        ELSE IF contains(s, <<"er">>) THEN 1
        ELSE IF contains(s, <<"sun">>) THEN 2
        ELSE IF contains(s, <<"lai", "sun">>) THEN 5
        ELSE 10,
        IF contains(s, <<"nv">>) THEN "Female" ELSE "Male",
        IF contains(s, <<"wai">>) THEN "Foreign" ELSE "Direct")

MemberType_from_str(s) ==
    MemberType(
        IF s = <<"jia", "zhu">> THEN 0
        ELSE IF contains(s, <<"er">>) THEN 1
        ELSE IF contains(s, <<"lai", "sun">>) THEN 5
        ELSE IF contains(s, <<"xuan", "sun">>) THEN 4
        ELSE IF contains(s, <<"zeng", "sun">>) THEN 3
        ELSE IF contains(s, <<"kun", "sun">>) THEN 6
        ELSE IF contains(s, <<"reng", "sun">>) THEN 7
        ELSE IF contains(s, <<"yun", "sun">>) THEN 8
        ELSE IF contains(s, <<"ear", "sun">>) THEN 9
        ELSE IF contains(s, <<"sun">>) THEN 2
        ELSE 10,
        IF contains(s, <<"nv">>) THEN "Female" ELSE "Male",
        IF contains(s, <<"wai">>) THEN "Foreign" ELSE "Direct")

\* promotion by one level whatever the number of levels asked for
promote_one_level(generation, levels) == from_u8(saturating_sub(generation, 1))

promote(generation, levels) == from_u8(saturating_sub(generation, levels))

(***************************************************************************)
(* Read-only tree walks.                                                   *)
(***************************************************************************)
RECURSIVE SumSeq(_)
SumSeq(s) == IF s = <<>> THEN 0 ELSE Head(s) + SumSeq(Tail(s))

\* size that counts dead children as well
RECURSIVE size_counts_dead(_)
size_counts_dead(self) ==
    1 + SumSeq([i \in DOMAIN self.children |-> size_counts_dead(self.children[i])])

RECURSIVE size(_)
size(self) ==
    1 + SumSeq([i \in DOMAIN self.children |->
                  IF self.children[i].is_dead THEN 0 ELSE size(self.children[i])])

RECURSIVE exists(_, _)
exists(self, name) ==
    \/ self.name = name
    \/ \E i \in DOMAIN self.children : exists(self.children[i], name)

\* The node a lookup by name borrows, as the sequence of child indices that
\* leads to it from self: Some(path) for the first match in pre-order, None
\* when no node has the name.
RECURSIVE find_member_by_name_mut(_, _)
find_member_by_name_mut(self, name) ==
    IF self.name = name THEN Some(<<>>)
    ELSE LET hits == {i \in DOMAIN self.children :
                        find_member_by_name_mut(self.children[i], name) # None}
         IN  IF hits = {} THEN None
             ELSE LET i == CHOOSE j \in hits : \A k \in hits : j <= k
                  IN  Some(<<i>> \o find_member_by_name_mut(self.children[i], name)[1])

\* Dereference of a borrowed node.
RECURSIVE NodeAt(_, _)
NodeAt(self, p) == IF p = <<>> THEN self ELSE NodeAt(self.children[Head(p)], Tail(p))

\* Assignment through a mutable borrow: the tree with the node at p replaced.
RECURSIVE StoreAt(_, _, _)
StoreAt(self, p, node) ==
    IF p = <<>> THEN node
    ELSE [self EXCEPT !.children[Head(p)] = StoreAt(@, Tail(p), node)]

find_member_by_name(self, name) ==
    LET r == find_member_by_name_mut(self, name)
    IN  IF r = None THEN None ELSE Some(NodeAt(self, r[1]))

\* the path search without the pop before it returns false
RECURSIVE find_path_never_pops(_, _, _)
RECURSIVE find_path_children_never_pops(_, _, _, _)
find_path_never_pops(self, target_name, path) ==
    LET pushed == Append(path, self.name)
    IN  IF self.name = target_name THEN [found |-> TRUE, path |-> pushed]
        ELSE find_path_children_never_pops(self.children, 1, target_name, pushed)

find_path_children_never_pops(children, i, target_name, path) ==
    IF i > Len(children) THEN [found |-> FALSE, path |-> path]
    ELSE LET r == find_path_never_pops(children[i], target_name, path)
         IN  IF r.found THEN r
             ELSE find_path_children_never_pops(children, i + 1, target_name, r.path)

\* The names on the accumulated path, and whether the target was found.
RECURSIVE find_path_recursive(_, _, _)
RECURSIVE find_path_children(_, _, _, _)
find_path_recursive(self, target_name, path) ==
    LET pushed == Append(path, self.name)
    IN  IF self.name = target_name THEN [found |-> TRUE, path |-> pushed]
        ELSE LET r == find_path_children(self.children, 1, target_name, pushed)
             IN  IF r.found THEN r
                 ELSE [found |-> FALSE, path |-> SubSeq(pushed, 1, Len(pushed) - 1)]

find_path_children(children, i, target_name, path) ==
    IF i > Len(children) THEN [found |-> FALSE, path |-> path]
    ELSE LET r == find_path_recursive(children[i], target_name, path)
         IN  IF r.found THEN r
             ELSE find_path_children(children, i + 1, target_name, r.path)

(***************************************************************************)
(* Mutation engine (model.rs 325-416, 466-476).                            *)
(***************************************************************************)
RECURSIVE add_child_entity(_, _, _)
add_child_entity(self, parent_name, child) ==
    IF self.name = parent_name
    THEN [self EXCEPT !.children = Append(@, child)]
    ELSE [self EXCEPT !.children =
            [i \in DOMAIN @ |-> add_child_entity(@[i], parent_name, child)]]

RECURSIVE add_child_entities(_, _, _)
add_child_entities(self, parent_name, children_vec) ==
    IF children_vec = <<>> THEN self
    ELSE add_child_entities(add_child_entity(self, parent_name, Head(children_vec)),
                            parent_name, Tail(children_vec))

\* serde_json::from_str::<Vec<FamilyMember>>: a payload is a text that either
\* deserializes to a vector of members or does not.
from_str(child_json) == IF child_json.ok THEN Some(child_json.members) ELSE None

\* The members of the batch whose name the pre-insert check finds in the tree.
Clashing(self, children_vec) ==
    {i \in DOMAIN children_vec : exists(self, children_vec[i].name)}

\* add_children checking each member right before inserting it
add_children_checks_while_inserting(self, parent_name, child_json) ==
    LET parsed == from_str(child_json)
    IN  IF parsed = None
        THEN [tree |-> self, out |-> Report("InvalidFormat", "", 0)]
        ELSE LET children_vec == parsed[1]
                 clash == Clashing(self, children_vec)
             IN  IF clash # {}
                 THEN LET i == CHOOSE j \in clash : \A k \in clash : j <= k
                      IN  [tree |-> add_child_entities(self, parent_name,
                                                       SubSeq(children_vec, 1, i - 1)),
                           out |-> Report("DuplicateName", children_vec[i].name, 0)]
                 ELSE [tree |-> add_child_entities(self, parent_name, children_vec),
                       out |-> Silent]

\* add_children returning on a duplicate without a message
add_children_silent_on_duplicate(self, parent_name, child_json) ==
    LET parsed == from_str(child_json)
    IN  IF parsed = None
        THEN [tree |-> self, out |-> Report("InvalidFormat", "", 0)]
        ELSE IF Clashing(self, parsed[1]) # {}
             THEN [tree |-> self, out |-> Silent]
             ELSE [tree |-> add_child_entities(self, parent_name, parsed[1]),
                   out |-> Silent]

add_children(self, parent_name, child_json) ==
    LET parsed == from_str(child_json)
    IN  IF parsed = None
        THEN [tree |-> self, out |-> Report("InvalidFormat", "", 0)]
        ELSE LET children_vec == parsed[1]
                 clash == Clashing(self, children_vec)
             IN  IF clash # {}
                 THEN LET i == CHOOSE j \in clash : \A k \in clash : j <= k
                      IN  [tree |-> self,
                           out |-> Report("DuplicateName", children_vec[i].name, 0)]
                 ELSE [tree |-> add_child_entities(self, parent_name, children_vec),
                       out |-> Silent]

add_position(self, name, position) ==
    LET member == find_member_by_name_mut(self, name)
    IN  IF member = None
        THEN [tree |-> self, out |-> Report("NotFound", name, 0)]
        ELSE [tree |-> StoreAt(self, member[1],
                               [NodeAt(self, member[1]) EXCEPT !.position = Some(position)]),
              out |-> Ok]

\* prune that does not descend into the children it retains
prune_top_level_only(self, year) ==
    [self EXCEPT !.children = SelectSeq(@, LAMBDA child : child.birth_year <= year)]

\* prune whose removal loop steps over the child that follows a removed one
RECURSIVE retain_skipping(_, _)
retain_skipping(children, year) ==
    IF children = <<>> THEN <<>>
    ELSE IF Head(children).birth_year <= year
         THEN <<Head(children)>> \o retain_skipping(Tail(children), year)
         ELSE IF Tail(children) = <<>> THEN <<>>
              ELSE <<Head(Tail(children))>> \o retain_skipping(Tail(Tail(children)), year)

RECURSIVE prune_skips_after_removal(_, _)
prune_skips_after_removal(self, year) ==
    LET retained == retain_skipping(self.children, year)
    IN  [self EXCEPT !.children =
            [i \in DOMAIN retained |-> prune_skips_after_removal(retained[i], year)]]

RECURSIVE prune_future_births(_, _)
prune_future_births(self, year) ==
    LET retained == SelectSeq(self.children, LAMBDA child : child.birth_year <= year)
    IN  [self EXCEPT !.children =
            [i \in DOMAIN retained |-> prune_future_births(retained[i], year)]]

\* rename writing the new name into the node it is called on
rename_writes_self(self, old_name, new_name) ==
    IF exists(self, new_name)
    THEN [tree |-> self, out |-> Report("NameExists", new_name, 0)]
    ELSE IF find_member_by_name_mut(self, old_name) # None
         THEN [tree |-> [self EXCEPT !.name = new_name], out |-> Ok]
         ELSE [tree |-> self, out |-> Report("NotFound", old_name, 0)]

\* rename without the check of the new name
rename_unchecked(self, old_name, new_name) ==
    LET member == find_member_by_name_mut(self, old_name)
    IN  IF member # None
        THEN [tree |-> StoreAt(self, member[1],
                               [NodeAt(self, member[1]) EXCEPT !.name = new_name]),
              out |-> Ok]
        ELSE [tree |-> self, out |-> Report("NotFound", old_name, 0)]

rename(self, old_name, new_name) ==
    IF exists(self, new_name)
    THEN [tree |-> self, out |-> Report("NameExists", new_name, 0)]
    ELSE LET member == find_member_by_name_mut(self, old_name)
         IN  IF member # None
             THEN [tree |-> StoreAt(self, member[1],
                                    [NodeAt(self, member[1]) EXCEPT !.name = new_name]),
                   out |-> Ok]
             ELSE [tree |-> self, out |-> Report("NotFound", old_name, 0)]

\* mark_dead without the check of the flag
mark_dead_idempotent(self, name) ==
    LET member == find_member_by_name_mut(self, name)
    IN  IF member # None
        THEN [tree |-> StoreAt(self, member[1],
                               [NodeAt(self, member[1]) EXCEPT !.is_dead = TRUE]),
              out |-> Ok]
        ELSE [tree |-> self, out |-> Report("NotFound", name, 0)]

mark_dead(self, name) ==
    LET member == find_member_by_name_mut(self, name)
    IN  IF member # None
        THEN IF NodeAt(self, member[1]).is_dead
             THEN [tree |-> self, out |-> Report("AlreadyDead", name, 0)]
             ELSE [tree |-> StoreAt(self, member[1],
                                    [NodeAt(self, member[1]) EXCEPT !.is_dead = TRUE]),
                   out |-> Ok]
        ELSE [tree |-> self, out |-> Report("NotFound", name, 0)]

(***************************************************************************)
(* Succession engine (model.rs 418-460, 626-642).                          *)
(***************************************************************************)
(***************************************************************************)
(* show.  A printed line is a record of its columns; the padding of each   *)
(* column to its width is left out.  The tree column is the sequence of    *)
(* its three-character pieces: "blank", "bar", "last" and "tee".           *)
(***************************************************************************)
Line(kind, tree_prefix, name, birth, type, status, position, attr, child) ==
    [kind |-> kind, tree_prefix |-> tree_prefix, name |-> name, birth |-> birth, type |-> type,
     status |-> status, position |-> position, attr |-> attr, child |-> child]

Text(kind, name) == Line(kind, <<>>, name, 0, <<>>, "", "", 0, 0)

RECURSIVE Concat(_)
Concat(seqs) == IF seqs = <<>> THEN <<>> ELSE Head(seqs) \o Concat(Tail(seqs))

\* the line of one member, for a given tree column and children column
MemberLine(self, tree_prefix, child) ==
    Line("member", tree_prefix, self.name, self.birth_year, fmt(self.member_type),
         IF self.is_dead THEN "dead" ELSE "",
         IF self.position = None THEN "-" ELSE self.position[1],
         self.hoser_power_add, child)

\* the tree column of a node at a level
TreePrefix(level, is_last, parent_markers) ==
    [i \in DOMAIN parent_markers |-> IF parent_markers[i] THEN "blank" ELSE "bar"]
    \o (IF level > 0 THEN <<IF is_last THEN "last" ELSE "tee">> ELSE <<>>)

\* the helper with the living children in the children column
RECURSIVE show_helper_counts_living(_, _, _, _)
show_helper_counts_living(self, level, is_last, parent_markers) ==
    LET child_count == Len(self.children)
    IN  <<MemberLine(self, TreePrefix(level, is_last, parent_markers),
                     Len(SelectSeq(self.children, LAMBDA c : ~c.is_dead)))>>
        \o Concat([index \in DOMAIN self.children |->
                      show_helper_counts_living(self.children[index], level + 1,
                                                index = child_count,
                                                Append(parent_markers, is_last))])

RECURSIVE show_with_descendants_helper(_, _, _, _)
show_with_descendants_helper(self, level, is_last, parent_markers) ==
    LET child_count == Len(self.children)
    IN  <<MemberLine(self, TreePrefix(level, is_last, parent_markers), child_count)>>
        \o Concat([index \in DOMAIN self.children |->
                      show_with_descendants_helper(self.children[index], level + 1,
                                                   index = child_count,
                                                   Append(parent_markers, is_last))])

show_with_descendants(self, level) == show_with_descendants_helper(self, level, TRUE, <<>>)

show(self, name) ==
    <<Text("border", ""), Text("header", ""), Text("border", "")>>
    \o (IF name = None THEN show_with_descendants(self, 0)
        ELSE LET p == find_member_by_name(self, name[1])
             IN  IF p # None THEN show_with_descendants(p[1], 0)
                 ELSE <<Text("not found", name[1])>>)
    \o <<Text("blank", "")>>

\* serde_json::to_string_pretty of a tree: the member's fields, its type
\* written as its title
RECURSIVE to_string_pretty(_)
to_string_pretty(self) ==
    [name |-> self.name, birth_year |-> self.birth_year,
     hoser_power_add |-> self.hoser_power_add, member_type |-> fmt(self.member_type),
     position |-> self.position,
     children |-> [i \in DOMAIN self.children |-> to_string_pretty(self.children[i])],
     is_dead |-> self.is_dead]

\* promotion that stops at the node it is called on
promote_descendants_top_only(self, levels) ==
    [self EXCEPT !.member_type.generation = promote(@, levels)]

RECURSIVE promote_descendants(_, _)
promote_descendants(self, levels) ==
    [self EXCEPT
        !.member_type.generation = promote(@, levels),
        !.children = [i \in DOMAIN @ |-> promote_descendants(@[i], levels)]]

RECURSIVE set_lineage_for_descendants(_, _)
set_lineage_for_descendants(self, lineage) ==
    [self EXCEPT !.children =
        [i \in DOMAIN @ |->
            set_lineage_for_descendants(
                [@[i] EXCEPT !.member_type.lineage = lineage], lineage)]]

\* the female-head rule without its test of the child's gender
redirect_lineage_any_gender(child) ==
    set_lineage_for_descendants([child EXCEPT !.member_type.lineage = "Direct"], "Direct")

\* the female-head rule applied to one child of the new head
redirect_lineage(child) ==
    LET direct == [child EXCEPT !.member_type.lineage = "Direct"]
    IN  IF direct.member_type.gender = "Male"
        THEN set_lineage_for_descendants(direct, "Direct")
        ELSE direct

\* inherit that applies the female-head rule under every head
inherit_redirects_always(self, name) ==
    LET found == find_member_by_name(self, name)
    IN  IF found = None
        THEN [ok |-> FALSE, tree |-> self, out |-> Report("NotFound", name, 0)]
        ELSE LET successor == found[1]
                 generation == successor.member_type.generation
             IN  IF generation > 2
                 THEN [ok |-> FALSE, tree |-> self,
                       out |-> Report("Ineligible", name, generation)]
                 ELSE [ok |-> TRUE,
                       tree |-> [successor EXCEPT
                                   !.member_type.generation = 0,
                                   !.children = [i \in DOMAIN @ |->
                                       redirect_lineage(promote_descendants(@[i], generation))]],
                       out |-> Ok]

\* inherit with the eligibility bound one generation too far
inherit_accepts_great_grandchild(self, name) ==
    LET found == find_member_by_name(self, name)
    IN  IF found = None
        THEN [ok |-> FALSE, tree |-> self, out |-> Report("NotFound", name, 0)]
        ELSE LET successor == found[1]
                 generation == successor.member_type.generation
             IN  IF generation > 3
                 THEN [ok |-> FALSE, tree |-> self,
                       out |-> Report("Ineligible", name, generation)]
                 ELSE [ok |-> TRUE,
                       tree |-> [successor EXCEPT
                                   !.member_type.generation = 0,
                                   !.children = [i \in DOMAIN @ |->
                                                   promote_descendants(@[i], generation)]],
                       out |-> Ok]

\* inherit that makes the successor a head in place before it tests eligibility
inherit_writes_before_test(self, name) ==
    LET found == find_member_by_name_mut(self, name)
    IN  IF found = None
        THEN [ok |-> FALSE, tree |-> self, out |-> Report("NotFound", name, 0)]
        ELSE LET successor == NodeAt(self, found[1])
                 generation == successor.member_type.generation
                 new_head == [successor EXCEPT !.member_type.generation = 0]
             IN  IF generation > 2
                 THEN [ok |-> FALSE, tree |-> StoreAt(self, found[1], new_head),
                       out |-> Report("Ineligible", name, generation)]
                 ELSE [ok |-> TRUE,
                       tree |-> [new_head EXCEPT
                                   !.children = [i \in DOMAIN @ |->
                                                   promote_descendants(@[i], generation)]],
                       out |-> Ok]

inherit(self, name) ==
    LET found == find_member_by_name(self, name)
    IN  IF found = None
        THEN [ok |-> FALSE, tree |-> self, out |-> Report("NotFound", name, 0)]
        ELSE LET successor == found[1]
                 generation == successor.member_type.generation
             IN  IF generation > 2
                 THEN [ok |-> FALSE, tree |-> self,
                       out |-> Report("Ineligible", name, generation)]
                 ELSE LET levels == generation
                          head_gender == successor.member_type.gender
                          new_head == [successor EXCEPT !.member_type.generation = 0]
                          promoted == [new_head EXCEPT !.children =
                                         [i \in DOMAIN @ |-> promote_descendants(@[i], levels)]]
                          redirected ==
                              IF head_gender = "Female"
                              THEN [promoted EXCEPT !.children =
                                      [i \in DOMAIN @ |-> redirect_lineage(@[i])]]
                              ELSE promoted
                      IN  [ok |-> TRUE, tree |-> redirected, out |-> Ok]

(***************************************************************************)
(* Inputs: the data file the loop starts from, and what the user types.    *)
(***************************************************************************)
Leaf(name, birth_year, generation, gender, lineage, is_dead) ==
    FamilyMember(name, birth_year, MemberType(generation, gender, lineage), <<>>, is_dead)

\* trees of the data file: every name occurs once
InitTrees ==
    { FamilyMember("Head", 1, MemberType(0, "Male", "Direct"), <<>>, FALSE),
      FamilyMember("Head", 1, MemberType(0, "Male", "Direct"),
         << FamilyMember("a", 1, MemberType(1, "Female", "Direct"),
               << Leaf("b", 2, 2, "Male", "Foreign", FALSE) >>, FALSE) >>, FALSE),
      FamilyMember("Head", 1, MemberType(0, "Male", "Direct"),
         << Leaf("c", 2, 1, "Male", "Direct", FALSE) >>, FALSE) }

\* a stored generation given relative to the parent's: one further from the
\* head, or a fixed one
Stored(choice, parent_generation) ==
    CASE choice = "next"    -> IF parent_generation < 9 THEN parent_generation + 1 ELSE 10
      [] choice = "head"    -> 0
      [] choice = "far"     -> 9
      [] choice = "unknown" -> 10

\* data files for the succession: Head[a[b[c]]] and Head[a[b], c] with a of
\* every generation and either gender under a head of either gender, b one
\* generation below a, a head or unknown, and c one below its parent or far
SuccessionTree(shape, head_gender, a_type, b_choice, b_gender, b_lineage, c_choice) ==
    LET b_generation == Stored(b_choice, a_type.generation)
        c_parent == IF shape = "chain" THEN b_generation ELSE 0
        c == Leaf("c", 1, Stored(c_choice, c_parent), "Male", "Foreign", FALSE)
        b == FamilyMember("b", 1, MemberType(b_generation, b_gender, b_lineage),
                          IF shape = "chain" THEN <<c>> ELSE <<>>, FALSE)
        a == FamilyMember("a", 1, a_type, <<b>>, FALSE)
    IN  FamilyMember("Head", 1, MemberType(0, head_gender, "Direct"),
                     IF shape = "chain" THEN <<a>> ELSE <<a, c>>, FALSE)

SuccessionTrees ==
    { SuccessionTree(shape, head_gender, MemberType(a_generation, a_gender, "Foreign"),
                     b_choice, b_gender, b_lineage, c_choice) :
        shape \in {"chain", "fork"}, head_gender \in Gender,
        a_generation \in Generation, a_gender \in Gender,
        b_choice \in {"next", "head", "unknown"}, b_gender \in Gender,
        b_lineage \in Lineage, c_choice \in {"next", "far"} }

\* members a payload can list: living sons born in year 1, dead foreign
\* great-granddaughters born in year 2, and living daughters who bring a
\* child of their own under another name
Members ==
    { Leaf(n, 1, 1, "Male", "Direct", FALSE) : n \in NewNames }
    \cup { Leaf(n, 2, 3, "Female", "Foreign", TRUE) : n \in NewNames }
    \cup { FamilyMember(nm[1], 1, MemberType(1, "Female", "Direct"),
              << Leaf(nm[2], 2, 2, "Male", "Foreign", FALSE) >>, FALSE) :
           nm \in {x \in NewNames \X NewNames : x[1] # x[2]} }

Batches == {<<>>} \cup {<<m>> : m \in Members} \cup {<<m1, m2>> : m1 \in Members, m2 \in Members}

Payloads ==
    {[ok |-> FALSE, members |-> <<>>]} \cup {[ok |-> TRUE, members |-> b] : b \in Batches}

Positions == {"p"}

\* the command line and the further input read by a handler
Command(op, name, arg, year, payload) ==
    [op |-> op, name |-> name, arg |-> arg, year |-> year, payload |-> payload]

NoPayload == [ok |-> FALSE, members |-> <<>>]

NoCommand == Command("", "", "", 0, NoPayload)

\* the archive directory: no file for any year
NoArchives == [year \in Years |-> None]

\* what the user types after year: a year, or something that is no number
YearArgs == {"1", "2", "x"}

parse_u16(s) == CASE s = "1" -> Some(1) [] s = "2" -> Some(2) [] OTHER -> None

\* the arguments of an inherit command line: none, one name or several
InheritArgs == {<<>>} \cup {<<n>> : n \in Names} \cup {<<n, "b">> : n \in Names}

\* answers to the confirmation prompt
Answers == {"y", "Y", "n"}

to_lowercase(s) == IF s = "Y" THEN "y" ELSE s

(***************************************************************************)
(* The command loop (main.rs 73-330).  prev is the tree as it was when the *)
(* command was read, cmd the command, out what its handler reported.       *)
(***************************************************************************)
Init ==
    /\ tree \in InitTrees
    /\ prev = tree
    /\ cmd = NoCommand
    /\ out = Silent
    /\ pc = "prompt"
    /\ steps = 0
    /\ lines = <<>>
    /\ title = <<>>
    /\ loaded = None
    /\ current_year = None
    /\ archives = NoArchives
    /\ found_path = <<>>

Done(c, r) ==
    /\ prev' = tree
    /\ cmd' = c
    /\ tree' = r.tree
    /\ out' = r.out
    /\ pc' = "done"
    /\ steps' = steps + 1
    /\ lines' = <<>>
    /\ found_path' = <<>>
    /\ UNCHANGED <<title, loaded, current_year, archives>>

Ready == pc = "prompt" /\ steps < MaxSteps

AddChildren ==
    /\ Ready
    /\ \E parent_name \in Names, child_json \in Payloads :
          Done(Command("add", parent_name, "", 0, child_json),
               add_children(tree, parent_name, child_json))

AddPosition ==
    /\ Ready
    /\ \E name \in Names, position \in Positions :
          Done(Command("position", name, position, 0, NoPayload),
               add_position(tree, name, position))

PruneFutureBirths ==
    /\ Ready
    /\ \E year \in Years :
          Done(Command("prune", "", "", year, NoPayload),
               [tree |-> prune_future_births(tree, year), out |-> Silent])

Rename ==
    /\ Ready
    /\ \E old_name \in Names, new_name \in Names :
          Done(Command("rename", old_name, new_name, 0, NoPayload),
               rename(tree, old_name, new_name))

MarkDead ==
    /\ Ready
    /\ \E name \in Names :
          Done(Command("die", name, "", 0, NoPayload), mark_dead(tree, name))

\* show without a name or with one; the command line without a name has the
\* empty name
Show ==
    /\ Ready
    /\ \E name \in {None} \cup {Some(n) : n \in Names} :
          /\ lines' = show(tree, name)
          /\ cmd' = Command("show", IF name = None THEN "" ELSE name[1], "", 0, NoPayload)
    /\ prev' = tree
    /\ out' = Silent
    /\ pc' = "done"
    /\ steps' = steps + 1
    /\ found_path' = <<>>
    /\ UNCHANGED <<tree, title, loaded, current_year, archives>>

\* path with a name: found_path is the vector after the search, whose names
\* the printed line joins
Path ==
    /\ Ready
    /\ \E name \in Names :
          LET r == find_path_recursive(tree, name, <<>>)
          IN  /\ found_path' = r.path
              /\ lines' = <<Text(IF r.found THEN "path" ELSE "not found", name)>>
              /\ cmd' = Command("path", name, "", 0, NoPayload)
    /\ prev' = tree
    /\ out' = Silent
    /\ pc' = "done"
    /\ steps' = steps + 1
    /\ UNCHANGED <<tree, title, loaded, current_year, archives>>

\* the end of a handler that prints several lines
Printed(c, printed, new_tree, report, new_archives, new_pc) ==
    /\ prev' = tree
    /\ cmd' = c
    /\ lines' = printed
    /\ tree' = new_tree
    /\ out' = report
    /\ archives' = new_archives
    /\ pc' = new_pc
    /\ steps' = steps + 1
    /\ found_path' = <<>>
    /\ UNCHANGED <<title, loaded>>

\* year without an argument, or with one
Year ==
    /\ Ready
    /\ \E args \in {<<>>} \cup {<<a>> : a \in YearArgs} :
          LET c == Command("year", "", IF args = <<>> THEN "" ELSE args[1], 0, NoPayload)
          IN  IF args = <<>>
              THEN /\ Printed(c, <<Text(IF current_year = None THEN "year not set"
                                                                ELSE "year", "")>>,
                              tree, Silent, archives, "done")
                   /\ UNCHANGED current_year
              ELSE IF parse_u16(args[1]) # None
                   THEN /\ current_year' = parse_u16(args[1])
                        /\ Printed(c, <<Text("year set", "")>>, tree, Silent, archives, "done")
                   ELSE /\ Printed(c, <<Text("invalid year", "")>>, tree, Silent, archives,
                                   "done")
                        /\ UNCHANGED current_year

\* the whole inherit command: usage message, year test, confirmation,
\* archive, tree.inherit(args[0]) and the replacement of the active tree.
\* written says whether fs::write of the archive succeeded; indexing the
\* empty argument list panics and ends the process
InheritCommand ==
    /\ Ready
    /\ UNCHANGED current_year
    /\ \E args \in InheritArgs, input \in Answers, written \in BOOLEAN :
          LET c == Command("inherit", IF Len(args) >= 1 THEN args[1] ELSE "",
                           IF Len(args) >= 2 THEN args[2] ELSE "", 0, NoPayload)
              usage == IF Len(args) # 1 THEN <<Text("usage", "")>> ELSE <<>>
          IN  IF current_year = None
              THEN Printed(c, usage \o <<Text("year not set", "")>>, tree, Silent, archives,
                           "done")
              ELSE IF to_lowercase(input) # "y"
              THEN Printed(c, usage \o <<Text("confirm", ""), Text("cancelled", "")>>,
                           tree, Silent, archives, "done")
              ELSE LET year == current_year[1]
                       archived == IF written
                                   THEN [archives EXCEPT ![year] = Some(to_string_pretty(tree))]
                                   ELSE archives
                       printed == usage \o <<Text("confirm", "")>>
                                  \o (IF written THEN <<Text("archived", "")>> ELSE <<>>)
                   IN  IF Len(args) = 0
                       THEN Printed(c, printed, tree, Silent, archived, "panicked")
                       ELSE LET r == inherit(tree, args[1])
                            IN  Printed(c, printed \o <<Text(IF r.ok THEN "inherited"
                                                                     ELSE "error", args[1])>>,
                                        r.tree, r.out, archived, "done")

\* tree.inherit(name) and, when it returns a new tree, its replacement of the
\* active tree (main.rs 316-322)
Inherit ==
    /\ Ready
    /\ \E name \in Names :
          Done(Command("inherit", name, "", 0, NoPayload), inherit(tree, name))

\* back to the top of the loop: the locals of the finished command are gone
NextCommand ==
    /\ pc = "done"
    /\ pc' = "prompt"
    /\ prev' = tree
    /\ cmd' = NoCommand
    /\ out' = Silent
    /\ lines' = <<>>
    /\ found_path' = <<>>
    /\ UNCHANGED <<tree, steps, title, loaded, current_year, archives>>

Next ==
    \/ AddChildren
    \/ AddPosition
    \/ PruneFutureBirths
    \/ Rename
    \/ MarkDead
    \/ Show
    \/ Path
    \/ Inherit
    \/ NextCommand

Spec == Init /\ [][Next]_vars

(***************************************************************************)
(* Vocabulary of the properties: a node is addressed by the sequence of    *)
(* child indices that leads to it from the root.                           *)
(***************************************************************************)
RECURSIVE Paths(_)
Paths(t) ==
    {<<>>} \cup UNION {{<<i>> \o p : p \in Paths(t.children[i])} : i \in DOMAIN t.children}

NamesOf(t) == {NodeAt(t, p).name : p \in Paths(t)}

Named(t, name) == {p \in Paths(t) : NodeAt(t, p).name = name}

UniqueNames(t) == \A p \in Paths(t), q \in Paths(t) : NodeAt(t, p).name = NodeAt(t, q).name => p = q

IsPrefix(p, q) == Len(p) <= Len(q) /\ SubSeq(q, 1, Len(p)) = p

\* p comes before q in the depth-first, children-in-order walk
RECURSIVE Before(_, _)
Before(p, q) ==
    IF p = <<>> THEN q # <<>>
    ELSE IF q = <<>> THEN FALSE
    ELSE IF Head(p) # Head(q) THEN Head(p) < Head(q)
    ELSE Before(Tail(p), Tail(q))

\* the first node of the walk that carries the name (only used when one does)
FirstNamed(t, name) == CHOOSE p \in Named(t, name) : \A q \in Named(t, name) : q = p \/ Before(p, q)

\* the last command was add_children with a well-formed payload
AddedBatch == pc = "done" /\ cmd.op = "add" /\ cmd.payload.ok

Batch == cmd.payload.members

BatchNames == {Batch[i].name : i \in DOMAIN Batch}

\* the batch passed the duplicate check of add_children
Accepted == AddedBatch /\ BatchNames \cap NamesOf(prev) = {}

(***************************************************************************)
(* C1.  Batch insert is atomic: when some member of the batch carries a    *)
(* name that is already in the tree, the tree after add_children is the    *)
(* tree before it, so no member of the batch has been inserted, those      *)
(* listed before the offending one included.                               *)
(***************************************************************************)
C1_BatchInsertAtomic ==
    (AddedBatch /\ BatchNames \cap NamesOf(prev) # {}) => tree = prev

\* a two-member batch under an existing parent whose second member clashes
\* and whose first member does not
C1_Witness ==
    /\ AddedBatch
    /\ cmd.name \in NamesOf(prev)
    /\ Len(Batch) = 2
    /\ Batch[1].name \notin NamesOf(prev)
    /\ Batch[2].name \in NamesOf(prev)
    /\ out.kind = "DuplicateName"

(***************************************************************************)
(* C2.  Name uniqueness is an invariant of the tree: after any sequence of *)
(* add_children, rename, mark_dead, prune_future_births, add_position and  *)
(* inherit-then-replace, no two nodes of the tree have the same name.      *)
(***************************************************************************)
C2_NamesUnique == UniqueNames(tree)

(***************************************************************************)
(* C3.  A batch that lists the same name twice is rejected as a whole by   *)
(* add_children: the duplicate is reported and the tree is left as it was. *)
(***************************************************************************)
C3_BatchInternalDuplicateRejected ==
    (AddedBatch /\ cmd.name \in NamesOf(prev)
                /\ \E i \in DOMAIN Batch, j \in DOMAIN Batch : i # j /\ Batch[i].name = Batch[j].name)
        => (tree = prev /\ out.kind = "DuplicateName")

(***************************************************************************)
(* C4.  A successful add_children under a parent that is in the tree       *)
(* appends the batch, in the given order, to the children of the parent    *)
(* and changes no other node of the tree.                                  *)
(***************************************************************************)
C4_AppendsToParentOnly ==
    (Accepted /\ cmd.name \in NamesOf(prev)) =>
        LET p == FirstNamed(prev, cmd.name)
        IN  tree = StoreAt(prev, p, [NodeAt(prev, p) EXCEPT !.children = @ \o Batch])

Counted(t) ==
    {p \in Paths(t) : \A k \in 1 .. Len(p) : ~NodeAt(t, SubSeq(p, 1, k)).is_dead}

\* the nodes that receive the batch: those that carry the parent name and
\* have no ancestor that carries it
Receivers(t, parent_name) ==
    {p \in Named(t, parent_name) :
        \A q \in Named(t, parent_name) : IsPrefix(q, p) => q = p}

\* what one inserted member adds to the count
Gain(member) == IF member.is_dead THEN 0 ELSE Cardinality(Counted(member))

PathTo(t, name) == find_path_recursive(t, name, <<>>)

(***************************************************************************)
(* C6.  After a successful batch insert under a parent that is in the tree *)
(* every inserted member exists, and the path from the root to it is the   *)
(* path from the root to the parent followed by the member.                *)
(***************************************************************************)
C6_InsertedReachableBelowParent ==
    (Accepted /\ cmd.name \in NamesOf(prev)) =>
        \A i \in DOMAIN Batch :
            /\ exists(tree, Batch[i].name)
            /\ PathTo(tree, Batch[i].name).found
            /\ PathTo(tree, Batch[i].name).path
                   = Append(PathTo(prev, cmd.name).path, Batch[i].name)

\* which of its four cases a call of add_children is in
AddCase(t, parent_name, child_json) ==
    IF ~child_json.ok THEN "malformed"
    ELSE IF {child_json.members[i].name : i \in DOMAIN child_json.members} \cap NamesOf(t) # {}
         THEN "duplicate"
    ELSE IF parent_name \notin NamesOf(t) THEN "parent not found"
    ELSE "inserted"

(***************************************************************************)
(* C7.  add_children tells its cases apart: a malformed payload, a parent  *)
(* name that is not in the tree, a duplicate name and a successful insert  *)
(* each end in an outcome (the report and the resulting tree) that no call *)
(* in another of the four cases ends in.                                   *)
(***************************************************************************)
C7_CasesHaveDistinctOutcomes ==
    (pc = "done" /\ cmd.op = "add") =>
        \A parent_name \in Names, child_json \in Payloads :
            AddCase(prev, parent_name, child_json) # AddCase(prev, cmd.name, cmd.payload)
                => add_children(prev, parent_name, child_json) # [tree |-> tree, out |-> out]

(***************************************************************************)
(* C7, amended.  add_children reports two failures: a malformed payload    *)
(* with the format message and a duplicate name with the duplicate message *)
(* that names a clashing member, both leaving the tree as it was.  A       *)
(* parent name that is not in the tree is not reported: the call prints    *)
(* nothing and changes nothing, as a successful insert of an empty batch   *)
(* does; a successful insert prints nothing.                               *)
(***************************************************************************)
C7_ReportsByCase ==
    (pc = "done" /\ cmd.op = "add") =>
        LET case == AddCase(prev, cmd.name, cmd.payload)
        IN  /\ case = "malformed" => (out.kind = "InvalidFormat" /\ tree = prev)
            /\ case = "duplicate" =>
                  /\ out.kind = "DuplicateName"
                  /\ out.name \in BatchNames \cap NamesOf(prev)
                  /\ tree = prev
            /\ case = "parent not found" => (out = Silent /\ tree = prev)
            /\ case = "inserted" => out = Silent

\* a batch with members sent to a parent that is not in the tree
C7_Witness ==
    /\ pc = "done" /\ cmd.op = "add"
    /\ AddCase(prev, cmd.name, cmd.payload) = "parent not found"
    /\ Batch # <<>>
    /\ out = Silent
    /\ tree = prev

\* the nodes of t and u correspond, and differ at most in their names
SameButNames(t, u) ==
    /\ Paths(t) = Paths(u)
    /\ \A p \in Paths(t) :
          LET m == NodeAt(t, p)
              n == NodeAt(u, p)
          IN  /\ m.birth_year = n.birth_year
              /\ m.hoser_power_add = n.hoser_power_add
              /\ m.member_type = n.member_type
              /\ m.position = n.position
              /\ m.is_dead = n.is_dead

(***************************************************************************)
(* C8.  In a tree whose names are unique, rename(old, new) with old in the *)
(* tree and new not in it succeeds; afterwards exists(new) holds and       *)
(* exists(old) does not, exactly one node has changed its name (from old   *)
(* to new) and nothing else in the tree has changed.                       *)
(***************************************************************************)
C8_RenameMovesOneName ==
    (/\ pc = "done" /\ cmd.op = "rename"
     /\ UniqueNames(prev)
     /\ cmd.name \in NamesOf(prev)
     /\ cmd.arg \notin NamesOf(prev)) =>
        /\ out = Ok
        /\ exists(tree, cmd.arg)
        /\ ~exists(tree, cmd.name)
        /\ SameButNames(prev, tree)
        /\ \E p \in Paths(prev) :
              /\ NodeAt(prev, p).name = cmd.name
              /\ NodeAt(tree, p).name = cmd.arg
              /\ \A q \in Paths(prev) \ {p} : NodeAt(tree, q).name = NodeAt(prev, q).name

\* a rename of a node below the root in a tree of at least three unique names
C8_Witness ==
    /\ pc = "done" /\ cmd.op = "rename"
    /\ UniqueNames(prev)
    /\ Cardinality(Paths(prev)) >= 3
    /\ cmd.name \in NamesOf(prev) \ {prev.name}
    /\ cmd.arg \notin NamesOf(prev)
    /\ out = Ok
    /\ tree # prev

(***************************************************************************)
(* C9.  rename(old, new) fails when new is already in the tree (new = old  *)
(* included) and when old is not in the tree, and a failed rename leaves   *)
(* the tree as it was.                                                     *)
(***************************************************************************)
C9_RenameFailsWithoutChange ==
    (pc = "done" /\ cmd.op = "rename") =>
        /\ cmd.arg \in NamesOf(prev) => (out = Report("NameExists", cmd.arg, 0) /\ tree = prev)
        /\ (cmd.arg \notin NamesOf(prev) /\ cmd.name \notin NamesOf(prev))
              => (out = Report("NotFound", cmd.name, 0) /\ tree = prev)
        /\ out # Ok => tree = prev

\* a rename of a member to its own name, refused
C9_Witness ==
    /\ pc = "done" /\ cmd.op = "rename"
    /\ cmd.name \in NamesOf(prev) \ {prev.name}
    /\ cmd.arg = cmd.name
    /\ out.kind = "NameExists"

(***************************************************************************)
(* C10.  mark_dead is not idempotent.  On a name whose member (the first   *)
(* node of the walk that carries it) is living it succeeds and sets the    *)
(* is_dead flag of that node and nothing else, and mark_dead of the same   *)
(* name on the resulting tree fails with the already-dead error and        *)
(* changes nothing; on a name whose member is dead it fails with the       *)
(* already-dead error and changes nothing; on a name that is not in the    *)
(* tree it fails with not-found and changes nothing.                       *)
(***************************************************************************)
C10_MarkDeadNotIdempotent ==
    (pc = "done" /\ cmd.op = "die") =>
        IF cmd.name \notin NamesOf(prev)
        THEN out = Report("NotFound", cmd.name, 0) /\ tree = prev
        ELSE LET p == FirstNamed(prev, cmd.name)
             IN  IF NodeAt(prev, p).is_dead
                 THEN out = Report("AlreadyDead", cmd.name, 0) /\ tree = prev
                 ELSE /\ out = Ok
                      /\ tree = StoreAt(prev, p, [NodeAt(prev, p) EXCEPT !.is_dead = TRUE])
                      /\ mark_dead(tree, cmd.name)
                            = [tree |-> tree, out |-> Report("AlreadyDead", cmd.name, 0)]

\* the second of two mark_dead calls on the head, which no payload names and
\* the data file holds living
C10_Witness ==
    /\ pc = "done" /\ cmd.op = "die"
    /\ steps = 2
    /\ cmd.name = "Head"
    /\ prev.name = "Head"
    /\ out.kind = "AlreadyDead"
    /\ tree = prev

(***************************************************************************)
(* The succession on its own: the loop started from a data file of         *)
(* SuccessionTrees and given inherit commands only.                        *)
(***************************************************************************)
InitInherit ==
    /\ tree \in SuccessionTrees
    /\ prev = tree
    /\ cmd = NoCommand
    /\ out = Silent
    /\ pc = "prompt"
    /\ steps = 0
    /\ lines = <<>>
    /\ title = <<>>
    /\ loaded = None
    /\ current_year = None
    /\ archives = NoArchives
    /\ found_path = <<>>

NextInherit ==
    \/ Inherit
    \/ NextCommand

SpecInherit == InitInherit /\ [][NextInherit]_vars

(***************************************************************************)
(* The title codec on its own: a member of any type is written to the data *)
(* file, its type as its title, and read back.                             *)
(***************************************************************************)
InitCodec ==
    /\ tree \in {Leaf("Head", 1, generation, gender, lineage, FALSE) :
                   generation \in Generation, gender \in Gender, lineage \in Lineage}
    /\ prev = tree
    /\ cmd = NoCommand
    /\ out = Silent
    /\ pc = "prompt"
    /\ steps = 0
    /\ lines = <<>>
    /\ title = <<>>
    /\ loaded = None
    /\ current_year = None
    /\ archives = NoArchives
    /\ found_path = <<>>

serialize ==
    /\ pc = "prompt"
    /\ title' = fmt(tree.member_type)
    /\ pc' = "saved"
    /\ UNCHANGED <<tree, prev, cmd, out, steps, lines, loaded, current_year, archives, found_path>>

deserialize ==
    /\ pc = "saved"
    /\ loaded' = Some(MemberType_from_str(title))
    /\ pc' = "loaded"
    /\ UNCHANGED <<tree, prev, cmd, out, steps, lines, title, current_year, archives, found_path>>

NextCodec ==
    \/ serialize
    \/ deserialize

SpecCodec == InitCodec /\ [][NextCodec]_vars

(***************************************************************************)
(* The inherit command as a whole: the loop given year and inherit         *)
(* commands only.                                                          *)
(***************************************************************************)
NextArchive ==
    \/ Year
    \/ InheritCommand
    \/ NextCommand

SpecArchive == Init /\ [][NextArchive]_vars

(***************************************************************************)
(* C11.  A successful mark_dead(name) lowers size() by exactly 1: the dead *)
(* member leaves the count and its living descendants stay in it.          *)
(***************************************************************************)
C11_MarkDeadLowersSizeByOne ==
    (pc = "done" /\ cmd.op = "die" /\ out = Ok) => size(tree) = size(prev) - 1

\* the nodes that remain after a prune: those below the root that were born
\* by the year and have only such nodes between them and the root
Kept(t, year) ==
    {p \in Paths(t) : \A k \in 1 .. Len(p) : NodeAt(t, SubSeq(p, 1, k)).birth_year <= year}

\* the paths of a set in the order of the depth-first walk
RECURSIVE InWalkOrder(_)
InWalkOrder(S) ==
    IF S = {} THEN <<>>
    ELSE LET p == CHOOSE x \in S : \A y \in S : y = x \/ Before(x, y)
         IN  <<p>> \o InWalkOrder(S \ {p})

\* a node without its children
Fields(n) ==
    [name |-> n.name, birth_year |-> n.birth_year, hoser_power_add |-> n.hoser_power_add,
     member_type |-> n.member_type, position |-> n.position, is_dead |-> n.is_dead]

\* the nodes of t at the paths of S, in walk order, each with its depth: for
\* S = Paths(t) this sequence determines t
Walk(t, S) ==
    LET order == InWalkOrder(S)
    IN  [i \in DOMAIN order |-> <<Len(order[i]), Fields(NodeAt(t, order[i]))>>]

(***************************************************************************)
(* C12.  prune_future_births(year) removes, at every level below the root, *)
(* every node born after the year together with its subtree: the tree      *)
(* afterwards consists of the root and of the nodes that, with all their   *)
(* ancestors below the root, were born by the year, at their depth and in  *)
(* their order, and no node below the root was born after the year.        *)
(***************************************************************************)
C12_PruneIsReferencePrune ==
    (pc = "done" /\ cmd.op = "prune") =>
        /\ Walk(tree, Paths(tree)) = Walk(prev, Kept(prev, cmd.year))
        /\ \A p \in Paths(tree) \ {<<>>} : NodeAt(tree, p).birth_year <= cmd.year

\* a prune that removes a node together with a child that was born by the year
C12_Witness ==
    /\ pc = "done" /\ cmd.op = "prune"
    /\ \E p \in Paths(prev) \ Kept(prev, cmd.year) :
          /\ NodeAt(prev, p).birth_year <= cmd.year
          /\ Len(p) = 2
    /\ Cardinality(Paths(tree)) = Cardinality(Paths(prev)) - 2

(***************************************************************************)
(* C13.  prune is idempotent: pruning the pruned tree again with the same  *)
(* year, or with any later year, changes nothing.                          *)
(***************************************************************************)
C13_PruneIdempotent ==
    (pc = "done" /\ cmd.op = "prune") =>
        \A year \in Years : year >= cmd.year => prune_future_births(tree, year) = tree

\* a prune that removed two siblings
C13_Witness ==
    /\ pc = "done" /\ cmd.op = "prune"
    /\ \E p \in Paths(prev) :
          /\ Len(NodeAt(prev, p).children) >= 2
          /\ NodeAt(prev, p).children[1].birth_year > cmd.year
          /\ NodeAt(prev, p).children[2].birth_year > cmd.year
          /\ p \in Kept(prev, cmd.year)
    /\ Cardinality(Paths(tree)) <= Cardinality(Paths(prev)) - 2

\* the successor of an inherit command in the tree it was given to
Successor == NodeAt(prev, FirstNamed(prev, cmd.name))

\* the node of the old tree that the node at p of the new tree comes from
Old(p) == NodeAt(prev, FirstNamed(prev, cmd.name) \o p)

\* the paths of the subtree of t at p, from p on
Below(t, p) == {SubSeq(q, Len(p) + 1, Len(q)) : q \in {x \in Paths(t) : IsPrefix(p, x)}}

Inherited == pc = "done" /\ cmd.op = "inherit" /\ out = Ok

(***************************************************************************)
(* C14.  inherit(name) fails with not-found for a name absent from the     *)
(* tree; for a present name it succeeds exactly when the successor's       *)
(* stored generation is head, child or grandchild (0, 1, 2), and fails     *)
(* with the ineligible-successor error for 3..9 and for unknown.           *)
(***************************************************************************)
C14_InheritEligibility ==
    (pc = "done" /\ cmd.op = "inherit") =>
        IF cmd.name \notin NamesOf(prev)
        THEN out = Report("NotFound", cmd.name, 0)
        ELSE LET generation == Successor.member_type.generation
             IN  /\ generation \in 0 .. 2 => out = Ok
                 /\ generation \in 3 .. 10 => out = Report("Ineligible", cmd.name, generation)

\* a grandchild below the root has inherited
C14_Witness ==
    /\ Inherited
    /\ Successor.member_type.generation = 2
    /\ FirstNamed(prev, cmd.name) # <<>>

(***************************************************************************)
(* C15.  After a successful inherit for a successor of generation k the    *)
(* new tree is the successor's subtree, its root is a head, and every      *)
(* other node whose generation was g in 0..9 has generation max(0, g - k). *)
(***************************************************************************)
C15_InheritPromotes ==
    Inherited =>
        LET k == Successor.member_type.generation
        IN  /\ Paths(tree) = Below(prev, FirstNamed(prev, cmd.name))
            /\ tree.member_type.generation = 0
            /\ \A p \in Paths(tree) \ {<<>>} :
                  LET g == Old(p).member_type.generation
                  IN  g \in 0 .. 9 =>
                        NodeAt(tree, p).member_type.generation = (IF g > k THEN g - k ELSE 0)

\* a grandchild has inherited with a child of its own whose generation is
\* floored and a grandchild whose generation goes down by two
C15_Witness ==
    /\ Inherited
    /\ Successor.member_type.generation = 2
    /\ \E p \in Paths(tree) : Len(p) = 1 /\ Old(p).member_type.generation = 0
    /\ \E p \in Paths(tree) : /\ Len(p) = 2
                              /\ Old(p).member_type.generation = 9
                              /\ NodeAt(tree, p).member_type.generation = 7

(***************************************************************************)
(* C16.  Succession is all-or-nothing: inherit builds its result from a    *)
(* copy and leaves the tree it is called on as it was, so when the inherit *)
(* command fails, with not-found or ineligible, the active tree is still   *)
(* the old tree, and when it succeeds the active tree is a complete        *)
(* succession: a head over the successor's whole subtree.                  *)
(***************************************************************************)
C16_InheritAllOrNothing ==
    (pc = "done" /\ cmd.op = "inherit") =>
        IF out = Ok
        THEN /\ tree.member_type.generation = 0
             /\ Paths(tree) = Below(prev, FirstNamed(prev, cmd.name))
        ELSE /\ tree = prev
             /\ out.kind \in {"NotFound", "Ineligible"}

\* an ineligible successor below the root, with descendants, was refused
C16_Witness ==
    /\ pc = "done" /\ cmd.op = "inherit"
    /\ out.kind = "Ineligible"
    /\ FirstNamed(prev, cmd.name) # <<>>
    /\ Successor.children # <<>>
    /\ tree = prev

\* the direct children of the new head, by gender, as paths of the new tree
ChildrenOfHead(gender) ==
    {p \in Paths(tree) : Len(p) = 1 /\ NodeAt(tree, p).member_type.gender = gender}

(***************************************************************************)
(* C17.  After a successful inherit for a female successor every direct    *)
(* child of the new root has lineage direct, every descendant at any depth *)
(* of a male direct child has lineage direct, and every descendant of a    *)
(* female direct child keeps the lineage it had in the old tree.           *)
(***************************************************************************)
C17_FemaleHeadLineage ==
    (Inherited /\ Successor.member_type.gender = "Female") =>
        \A p \in Paths(tree) \ {<<>>} :
            LET lineage == NodeAt(tree, p).member_type.lineage
            IN  IF Len(p) = 1 \/ SubSeq(p, 1, 1) \in ChildrenOfHead("Male")
                THEN lineage = "Direct"
                ELSE lineage = Old(p).member_type.lineage

\* a female head with a foreign son, and a foreign daughter with a foreign child
C17_Witness ==
    /\ Inherited /\ Successor.member_type.gender = "Female"
    /\ \E p \in Paths(tree) :
          /\ Len(p) = 2
          /\ SubSeq(p, 1, 1) \in ChildrenOfHead("Female")
          /\ Old(p).member_type.lineage = "Foreign"
          /\ Old(SubSeq(p, 1, 1)).member_type.lineage = "Foreign"
    /\ \E p \in ChildrenOfHead("Male") : Old(p).member_type.lineage = "Foreign"

\* every node of the new tree has the generation of its depth
GenerationIsDepth ==
    \A p \in Paths(tree) : Len(p) <= 9 => NodeAt(tree, p).member_type.generation = Len(p)

(***************************************************************************)
(* C18.  In the tree returned by a successful inherit every node at depth  *)
(* d <= 9 below the new root has generation d, whatever the tree that      *)
(* inherit was given.                                                      *)
(***************************************************************************)
C18_GenerationIsDepthAlways == Inherited => GenerationIsDepth

\* the generations stored below the successor were those of the depth below it
StoredByDepth ==
    \A p \in Paths(tree) \ {<<>>} :
        /\ Old(p).member_type.generation \in 0 .. 9
        /\ Old(p).member_type.generation = Successor.member_type.generation + Len(p)

(***************************************************************************)
(* C18, amended.  inherit subtracts the successor's generation from the    *)
(* stored generations; it does not derive them from the depth.  When the   *)
(* generations stored below the successor were its own plus the depth      *)
(* below it, every node at depth d of the returned tree has generation d.  *)
(***************************************************************************)
C18_GenerationIsDepthWhenStoredByDepth == (Inherited /\ StoredByDepth) => GenerationIsDepth

\* a grandchild with a great-grandchild and a great-great-grandchild below it
\* has inherited
C18_Witness ==
    /\ Inherited /\ StoredByDepth
    /\ Successor.member_type.generation = 2
    /\ \E p \in Paths(tree) : Len(p) = 2

(***************************************************************************)
(* C19.  For every generation from child to the ninth (1..9), every gender *)
(* and every lineage, decoding the encoded title gives the same generation *)
(* and the same gender; it gives the same lineage when the generation is 2 *)
(* or more, and for the child generation it always gives direct.           *)
(***************************************************************************)
C19_TitleRoundTrip ==
    (pc = "loaded" /\ tree.member_type.generation \in 1 .. 9) =>
        LET written == tree.member_type
            read == loaded[1]
        IN  /\ read.generation = written.generation
            /\ read.gender = written.gender
            /\ written.generation >= 2 => read.lineage = written.lineage
            /\ written.generation = 1 => read.lineage = "Direct"

\* a foreign daughter was written and read back as a direct daughter
C19_Witness ==
    /\ pc = "loaded"
    /\ tree.member_type = MemberType(1, "Female", "Foreign")
    /\ title = <<"nv", "er">>
    /\ loaded = Some(MemberType(1, "Female", "Direct"))

\* the member lines of what a show command printed, and the node it showed
Rows == SelectSeq(lines, LAMBDA line : line.kind = "member")

Shown == IF cmd.name = "" THEN tree ELSE NodeAt(tree, FirstNamed(tree, cmd.name))

ShowedMembers == pc = "done" /\ cmd.op = "show" /\ (cmd.name = "" \/ cmd.name \in NamesOf(tree))

\* one line per node of the shown subtree, dead or not, in the order of the
\* depth-first walk, each with the children column given by Child
OneLinePerNode(Child(_)) ==
    LET order == InWalkOrder(Paths(Shown))
    IN  /\ Len(Rows) = Cardinality(Paths(Shown))
        /\ \A i \in DOMAIN Rows :
              LET node == NodeAt(Shown, order[i])
              IN  /\ Rows[i].name = node.name
                  /\ Rows[i].status = (IF node.is_dead THEN "dead" ELSE "")
                  /\ Rows[i].child = Child(node)

Living(node) == Cardinality({i \in DOMAIN node.children : ~node.children[i].is_dead})

All(node) == Len(node.children)

(***************************************************************************)
(* C20.  show prints exactly one line per node of the shown subtree, dead  *)
(* nodes included, in depth-first pre-order with the children in insertion *)
(* order, and the last column of each line is the number of that node's    *)
(* living children.                                                        *)
(***************************************************************************)
C20_LastColumnCountsLiving == ShowedMembers => OneLinePerNode(Living)

(***************************************************************************)
(* C20, amended.  As above, but the last column of each line is the number *)
(* of all children of the node, the dead ones included.                    *)
(***************************************************************************)
C20_LastColumnCountsChildren == ShowedMembers => OneLinePerNode(All)

\* at least three members were shown, one of them dead, and one below the
\* shown root with a child of its own
C20_Witness ==
    /\ ShowedMembers
    /\ Len(Rows) >= 3
    /\ \E i \in DOMAIN Rows : Rows[i].status = "dead"
    /\ \E i \in DOMAIN Rows : Rows[i].child >= 1 /\ Len(Rows[i].tree_prefix) >= 1

\* an inherit command has ended, by returning to the loop or by a panic
InheritEnded == pc \in {"done", "panicked"} /\ cmd.op = "inherit"

\* what the ended command printed
PrintedKinds == {lines[i].kind : i \in DOMAIN lines}

(***************************************************************************)
(* C21.  Whenever the inherit command replaces the active tree by the      *)
(* result of inherit while the current year is y, it has written a         *)
(* snapshot equal to the old tree to the archive of year y before; and it  *)
(* never replaces the active tree when no year is set, when the answer to  *)
(* the confirmation is not y, or when the archive was not written.         *)
(***************************************************************************)
C21_ArchivedBeforeReplaced ==
    InheritEnded =>
        /\ out = Ok =>
              /\ current_year # None
              /\ "archived" \in PrintedKinds
              /\ archives[current_year[1]] = Some(to_string_pretty(prev))
        /\ (current_year = None \/ "cancelled" \in PrintedKinds
                \/ "archived" \notin PrintedKinds) => (out # Ok /\ tree = prev)

\* the number of arguments of the ended command
ArgCount == IF cmd.name = "" THEN 0 ELSE IF cmd.arg = "" THEN 1 ELSE 2

(***************************************************************************)
(* C25.  An inherit command with no argument or with more than one prints  *)
(* the usage message, leaves the active tree as it was, writes no archive, *)
(* and returns to the loop, whatever the year and the answer.              *)
(***************************************************************************)
C25_WrongArgumentCountRejected ==
    (InheritEnded /\ ArgCount # 1) =>
        /\ "usage" \in PrintedKinds
        /\ tree = prev
        /\ out = Silent
        /\ "archived" \notin PrintedKinds
        /\ pc = "done"

\* s lists a chain of t from its root down to the node named target
IsChain(t, s, target) ==
    /\ Len(s) >= 1
    /\ s[1] = t.name
    /\ s[Len(s)] = target
    /\ \A i \in 1 .. Len(s) - 1 :
          \E p \in Named(t, s[i]) :
              \E j \in DOMAIN NodeAt(t, p).children : NodeAt(t, p).children[j].name = s[i + 1]

(***************************************************************************)
(* C22.  On a tree with unique names the path search for a name of the     *)
(* tree succeeds and leaves the chain from the root to the target on the   *)
(* accumulated path: the root first, the target last, each element a child *)
(* of the one before it.  For a name not in the tree it returns false and  *)
(* the accumulated path is empty again.                                    *)
(***************************************************************************)
C22_PathIsChainOrEmpty ==
    (pc = "done" /\ cmd.op = "path" /\ UniqueNames(tree)) =>
        IF cmd.name \in NamesOf(tree)
        THEN /\ lines = <<Text("path", cmd.name)>>
             /\ IsChain(tree, found_path, cmd.name)
             /\ Len(found_path) = Len(FirstNamed(tree, cmd.name)) + 1
        ELSE /\ lines = <<Text("not found", cmd.name)>>
             /\ found_path = <<>>

\* a grandchild was found below the second child of the root, after the
\* first child had been pushed and popped
C22_Witness ==
    /\ pc = "done" /\ cmd.op = "path" /\ UniqueNames(tree)
    /\ cmd.name \in NamesOf(tree)
    /\ Len(found_path) = 3
    /\ FirstNamed(tree, cmd.name)[1] = 2

\* a node without its children and without its generation
FieldsButGeneration(n) == [Fields(n) EXCEPT !.member_type.generation = 0]

(***************************************************************************)
(* C23.  After a successful inherit for a male successor the returned tree *)
(* has the shape and the child order of the successor's subtree in the old *)
(* tree, and every node has the name, birth year, position, attribute      *)
(* bonus, is_dead flag, gender and lineage it had there: only generations  *)
(* differ.                                                                 *)
(***************************************************************************)
C23_MaleHeadKeepsAllButGenerations ==
    (Inherited /\ Successor.member_type.gender = "Male") =>
        /\ Paths(tree) = Below(prev, FirstNamed(prev, cmd.name))
        /\ \A p \in Paths(tree) : FieldsButGeneration(NodeAt(tree, p)) = FieldsButGeneration(Old(p))

\* a son below the root has inherited, with a foreign child that has a
\* foreign child of its own
C23_Witness ==
    /\ Inherited /\ Successor.member_type.gender = "Male"
    /\ Successor.member_type.generation = 1
    /\ \E p \in Paths(tree) :
          /\ Len(p) = 2
          /\ Old(p).member_type.lineage = "Foreign"
          /\ Old(SubSeq(p, 1, 1)).member_type.lineage = "Foreign"
          /\ NodeAt(tree, p).member_type.generation # Old(p).member_type.generation

(***************************************************************************)
(* C24.  The unknown generation is stable under succession: after every    *)
(* successful inherit every descendant whose generation was unknown in the *)
(* old tree is still unknown in the new tree.                              *)
(***************************************************************************)
C24_UnknownStaysUnknown ==
    Inherited =>
        \A p \in Paths(tree) \ {<<>>} :
            Old(p).member_type.generation = 10 => NodeAt(tree, p).member_type.generation = 10

====
